---- MODULE Spec2Model ----
(***************************************************************************)
(* chunk.py of Minecraft-Overviewer: the isometric chunk renderer          *)
(* (ChunkRenderer.chunk_render) and its hash-keyed image cache             *)
(* (ChunkRenderer.render_and_save).                                        *)
(*                                                                         *)
(* SpecRender  one call of chunk_render, one action per (x, y) column of   *)
(*             the traversal.                                              *)
(* Spec        one caller calling render_and_save repeatedly on one        *)
(*             (chunk, mode) pair, one action per file-system operation.   *)
(* SpecConc    several callers on pairwise distinct pairs, interleaved.    *)
(***************************************************************************)
EXTENDS Integers, Sequences, FiniteSets, TLC

VARIABLES
    \* ---- chunk_render
    rpc,        \* "enter" | "loop" | "done" | "raised"
    rcave,      \* the cave argument
    rlevel,     \* the level struct: [grid |-> Blocks content, light |-> SkyLight content]
    rblocks,    \* the local `blocks`: [grid, masked, light]
    roff,       \* <<xoff, yoff>>
    rnext,      \* <<x, y>> of the column the loops enter next
    col,        \* what the inner z loop did in the column processed last
    \* ---- render_and_save
    dir,        \* destdir: file name -> "absent" | "image" | "junk"
    dir0,       \* destdir as it was before the first call
    chunkdata,  \* chunk id -> level struct stored in the chunk file
    pair,       \* caller -> <<chunk id, cave>>
    pc,         \* caller -> position in render_and_save
    level,      \* caller -> self._level of the running call
    dest,       \* caller -> dest_filename of the running call
    listing,    \* caller -> result of os.listdir(destdir)
    cur,        \* caller -> what the running / last call did
    prev,       \* caller -> what the call before it did
    budget      \* caller -> calls it may still start

rvars == <<rpc, rcave, rlevel, rblocks, roff, rnext, col>>
cvars == <<dir, dir0, chunkdata, pair, pc, level, dest, listing, cur, prev, budget>>
vars == <<rvars, cvars>>

(***************************************************************************)
(* Program constants                                                       *)
(***************************************************************************)
SizeX == 16
SizeY == 16
SizeZ == 128
SkyZ == 64
CanvasW == 384
CanvasH == 1728
SpriteSize == 24
HiddenId == 21

transparent_blocks ==
    {0, 8, 9, 18, 20, 37, 38, 39, 40, 50, 51, 52, 53, 59, 63, 64, 65, 66, 67,
     68, 69, 70, 71, 72, 74, 75, 76, 77, 79, 83, 85}

(***************************************************************************)
(* Bounds of the inputs                                                    *)
(***************************************************************************)
MaxGrid == 6     \* the block patterns 1..MaxGrid of GridTable
MaxLight == 1    \* the skylight patterns 0..MaxLight
MaxOff == 1      \* the offsets <<0, 0>> and <<5 * MaxOff, 3 * MaxOff>>

(***************************************************************************)
(* Inputs: the content of level['Blocks'] and level['SkyLight'].           *)
(* The block pattern <<a, b, c, d>> fills the 16x16x128 array with         *)
(* BlockPalette[(a*x + b*y + c*z + d) mod 4]; a = b = c = 0 is a grid      *)
(* filled with one block type.  The light pattern s fills the 16x16x64     *)
(* byte array with LightPalette[(s * (x + y + k)) mod 4]; s = 0 is a chunk *)
(* without any skylight.                                                   *)
(***************************************************************************)
BlockPalette == <<1, 1, 20, 0>>         \* stone, stone, glass, air
LightPalette == <<0, 15, 240, 83>>      \* 0x00, 0x0F, 0xF0, 0x53

GridTable ==
    << <<0, 0, 0, 0>>,      \* filled with stone
       <<0, 0, 1, 0>>,      \* layers stone, stone, glass, air
       <<1, 1, 1, 0>>,
       <<0, 0, 0, 3>>,      \* filled with air
       <<1, 0, 0, 0>>,
       <<0, 1, 0, 1>>,
       <<2, 1, 1, 2>>,
       <<1, 2, 3, 1>> >>

Grids == 1..MaxGrid
Lights == 0..MaxLight
Offsets == {<<0, 0>>, <<5 * MaxOff, 3 * MaxOff>>}

\* get_blockarray(level)[x, y, z]
get_blockarray(g, x, y, z) ==
    BlockPalette[((GridTable[g][1] * x + GridTable[g][2] * y
                   + GridTable[g][3] * z + GridTable[g][4]) % 4) + 1]

\* get_skylight_array(level)[x, y, k]
get_skylight_array(s, x, y, k) ==
    LightPalette[((s * (x + y + k)) % 4) + 1]

\* textures.blockmap[blockid] is truthy: the block type has a sprite
HasSprite(blockid) == blockid \notin {0, HiddenId}

(***************************************************************************)
(* Byte arithmetic of numpy.uint8                                          *)
(***************************************************************************)
RECURSIVE BitAnd(_, _)
BitAnd(a, b) ==
    IF a = 0 \/ b = 0 THEN 0
    ELSE (IF a % 2 = 1 /\ b % 2 = 1 THEN 1 ELSE 0) + 2 * BitAnd(a \div 2, b \div 2)

RECURSIVE ShiftRight(_, _)
ShiftRight(a, n) == IF n = 0 THEN a ELSE ShiftRight(a \div 2, n - 1)

(***************************************************************************)
(* Cave mode: skylight_expanded and the masked copy of blocks              *)
(***************************************************************************)
\* the nibbles taken the other way round
skylight_expanded_swapped(s, x, y, z) ==
    IF z % 2 = 0
    THEN ShiftRight(get_skylight_array(s, x, y, z \div 2), 4)
    ELSE BitAnd(get_skylight_array(s, x, y, (z - 1) \div 2), 15)

\* skylight_expanded[:,:,::2] = skylight & 0x0F ; [:,:,1::2] = skylight >> 4
\* (element k of the slice ::2 is element 2k, of the slice 1::2 element 2k+1)
skylight_expanded(s, x, y, z) ==
    IF z % 2 = 0
    THEN BitAnd(get_skylight_array(s, x, y, z \div 2), 15)
    ELSE ShiftRight(get_skylight_array(s, x, y, (z - 1) \div 2), 4)

\* blocks[x, y, z] for in-range, non-negative indices
BlockAt(B, x, y, z) ==
    IF B.masked /\ skylight_expanded(B.light, x, y, z) # 0
    THEN HiddenId
    ELSE get_blockarray(B.grid, x, y, z)

(***************************************************************************)
(* numpy indexing: an index i on an axis of size n is accepted when        *)
(* -n <= i < n (a negative one counts from the end), else IndexError.      *)
(***************************************************************************)
IndexOk(idx) ==
    /\ -SizeX <= idx[1] /\ idx[1] < SizeX
    /\ -SizeY <= idx[2] /\ idx[2] < SizeY
    /\ -SizeZ <= idx[3] /\ idx[3] < SizeZ

Item(B, idx) ==
    BlockAt(B, IF idx[1] < 0 THEN idx[1] + SizeX ELSE idx[1],
               IF idx[2] < 0 THEN idx[2] + SizeY ELSE idx[2],
               IF idx[3] < 0 THEN idx[3] + SizeZ ELSE idx[3])

(***************************************************************************)
(* The occlusion test of one voxel                                         *)
(***************************************************************************)
\* `blocks[i1] not in transparent_blocks and blocks[i2] not in ... `, evaluated
\* left to right from operand n: "true" | "false" | "raise", and the indices read
RECURSIVE AllOpaque(_, _, _)
AllOpaque(B, idxs, n) ==
    IF n > Len(idxs) THEN [val |-> "true", reads |-> {}]
    ELSE IF ~IndexOk(idxs[n]) THEN [val |-> "raise", reads |-> {idxs[n]}]
    ELSE IF Item(B, idxs[n]) \in transparent_blocks
    THEN [val |-> "false", reads |-> {idxs[n]}]
    ELSE LET r == AllOpaque(B, idxs, n + 1)
         IN  [val |-> r.val, reads |-> r.reads \cup {idxs[n]}]

\* the chain with the y+1 neighbour left out of the last test
Occluded_no_y(B, cave, x, y, z) ==
    IF cave /\ (x = 0 /\ y # 15 /\ z # 127)
    THEN AllOpaque(B, << <<x, y + 1, z>>, <<x, y, z + 1>> >>, 1)
    ELSE IF cave /\ (y = 15 /\ x # 0 /\ z # 127)
    THEN AllOpaque(B, << <<x - 1, y, z>>, <<x, y, z + 1>> >>, 1)
    ELSE IF cave /\ (y = 15 /\ x = 0)
    THEN AllOpaque(B, << <<x, y, z + 1>> >>, 1)
    ELSE IF x # 0 /\ y # 15 /\ z # 127
    THEN AllOpaque(B, << <<x - 1, y, z>>, <<x, y, z + 1>> >>, 1)
    ELSE [val |-> "false", reads |-> {}]

\* the if / elif chain: val = "true" means `continue` (the voxel is occluded)
Occluded(B, cave, x, y, z) ==
    IF cave /\ (x = 0 /\ y # 15 /\ z # 127)
    THEN AllOpaque(B, << <<x, y + 1, z>>, <<x, y, z + 1>> >>, 1)
    ELSE IF cave /\ (y = 15 /\ x # 0 /\ z # 127)
    THEN AllOpaque(B, << <<x - 1, y, z>>, <<x, y, z + 1>> >>, 1)
    ELSE IF cave /\ (y = 15 /\ x = 0)
    THEN AllOpaque(B, << <<x, y, z + 1>> >>, 1)
    ELSE IF x # 0 /\ y # 15 /\ z # 127
    THEN AllOpaque(B, << <<x - 1, y, z>>, <<x, y + 1, z>>, <<x, y, z + 1>> >>, 1)
    ELSE [val |-> "false", reads |-> {}]

\* the edge lines: the neighbours read and the lines drawn
EdgeLines(B, blockid, x, y, z) ==
    IF blockid \in transparent_blocks THEN [reads |-> {}, lines |-> {}]
    ELSE [reads |-> (IF x # 15 THEN {<<x + 1, y, z>>} ELSE {})
                    \cup (IF y # 0 THEN {<<x, y - 1, z>>} ELSE {}),
          lines |-> (IF x # 15 /\ Item(B, <<x + 1, y, z>>) = 0 THEN {"x"} ELSE {})
                    \cup (IF y # 0 /\ Item(B, <<x, y - 1, z>>) = 0 THEN {"y"} ELSE {})]

(***************************************************************************)
(* The body of `for z in xrange(128)` for one voxel:                       *)
(* "nosprite" | "occluded" | "drawn" | "raise", and the neighbours read    *)
(***************************************************************************)
VoxelOf(B, blockid, occ, x, y, z) ==
    IF occ.val = "raise"
    THEN [out |-> "raise", blockid |-> blockid, reads |-> occ.reads, lines |-> {}]
    ELSE IF occ.val = "true"
    THEN [out |-> "occluded", blockid |-> blockid, reads |-> occ.reads, lines |-> {}]
    ELSE CHOOSE r \in
             { [out |-> "drawn", blockid |-> blockid,
                reads |-> occ.reads \cup edge.reads, lines |-> edge.lines]
               : edge \in {EdgeLines(B, blockid, x, y, z)} } : TRUE

Voxel(B, cave, x, y, z) ==
    CHOOSE r \in
        { IF ~HasSprite(blockid)
          THEN [out |-> "nosprite", blockid |-> blockid, reads |-> {}, lines |-> {}]
          ELSE CHOOSE v \in { VoxelOf(B, blockid, occ, x, y, z)
                              : occ \in {Occluded(B, cave, x, y, z)} } : TRUE
          : blockid \in {Item(B, <<x, y, z>>)} } : TRUE

\* the decrement at the end of the body instead of in a finally clause
Finally_skipped(imgy, out) == IF out = "drawn" THEN imgy - 12 ELSE imgy

\* finally: imgy -= 12
Finally(imgy, out) == imgy - 12

\* one pass of the z loop: the voxel z, starting from what the passes before
\* it left in acc (the positions, ids and outcomes so far, the current imgy)
ZStep(B, cave, x, y, z, imgx, acc) ==
    CHOOSE r \in
        { [pos |-> Append(acc.pos, <<imgx, acc.imgy>>),
           ids |-> Append(acc.ids, v.blockid),
           outs |-> Append(acc.outs, v.out),
           reads |-> acc.reads \cup v.reads,
           raised |-> v.out = "raise",
           imgy |-> IF v.out = "raise" THEN acc.imgy ELSE Finally(acc.imgy, v.out)]
          : v \in {Voxel(B, cave, x, y, z)} } : TRUE

\* for z in xrange(lo, hi): the passes in order, each on the result of the one
\* before, until one raises (the range is halved to keep the evaluation shallow)
RECURSIVE ZLoop(_, _, _, _, _, _, _, _)
ZLoop(B, cave, x, y, lo, hi, imgx, acc) ==
    IF hi - lo = 1 THEN ZStep(B, cave, x, y, lo, imgx, acc)
    ELSE CHOOSE r \in
             { IF first.raised THEN first
               ELSE ZLoop(B, cave, x, y, (lo + hi) \div 2, hi, imgx, first)
               : first \in {ZLoop(B, cave, x, y, lo, (lo + hi) \div 2, imgx, acc)} } : TRUE

EmptyCol(imgy) ==
    [pos |-> <<>>, ids |-> <<>>, outs |-> <<>>, reads |-> {}, raised |-> FALSE,
     imgy |-> imgy]

\* one pass of `for y in xrange(16)`: the column (x, y)
Column(B, cave, xoff, yoff, x, y) ==
    LET imgx == xoff + x * 12 + y * 12
        imgy == yoff - x * 6 + y * 6 + 128 * 12 + (16 * 12) \div 2
    IN  ZLoop(B, cave, x, y, 0, SizeZ, imgx, EmptyCol(imgy))

\* for x in xrange(15,-1,-1): for y in xrange(16): the column after (x, y)
NextColumn(x, y) ==
    IF y + 1 < SizeY THEN <<x, y + 1>> ELSE <<x - 1, 0>>

(***************************************************************************)
(* chunk_render as a state machine                                         *)
(***************************************************************************)
NoCol == [x |-> -1, y |-> -1, pos |-> <<>>, ids |-> <<>>, outs |-> <<>>,
          reads |-> {}, raised |-> FALSE]

\* render_and_save is not running
CacheIdle ==
    /\ dir = <<>> /\ dir0 = <<>> /\ chunkdata = <<>> /\ pair = <<>> /\ pc = <<>>
    /\ level = <<>> /\ dest = <<>> /\ listing = <<>> /\ cur = <<>> /\ prev = <<>>
    /\ budget = <<>>

RenderInit ==
    /\ CacheIdle
    /\ rpc = "enter"
    /\ rcave \in BOOLEAN
    /\ rlevel \in [grid : Grids, light : Lights]
    /\ rcave = FALSE => rlevel.light = 0      \* SkyLight is read in cave mode only
    /\ rblocks = [grid |-> rlevel.grid, masked |-> FALSE, light |-> 0]
    /\ roff \in Offsets
    /\ rnext = <<SizeX - 1, 0>>
    /\ col = NoCol

\* blocks = self.blocks; if cave: ... blocks[skylight_expanded != 0] = 21
RenderEnter ==
    /\ rpc = "enter"
    /\ rblocks' = IF rcave
                  THEN [grid |-> rlevel.grid, masked |-> TRUE, light |-> rlevel.light]
                  ELSE rblocks
    /\ rpc' = "loop"
    /\ UNCHANGED <<rcave, rlevel, roff, rnext, col>>

\* one column of the traversal
RenderColumn ==
    /\ rpc = "loop"
    /\ rnext[1] >= 0
    /\ \E c \in {Column(rblocks, rcave, roff[1], roff[2], rnext[1], rnext[2])} :
           /\ col' = [x |-> rnext[1], y |-> rnext[2], pos |-> c.pos, ids |-> c.ids,
                      outs |-> c.outs, reads |-> c.reads, raised |-> c.raised]
           /\ rpc' = IF c.raised THEN "raised" ELSE "loop"
    /\ rnext' = NextColumn(rnext[1], rnext[2])
    /\ UNCHANGED <<rcave, rlevel, rblocks, roff>>

\* return img
RenderReturn ==
    /\ rpc = "loop"
    /\ rnext[1] < 0
    /\ rpc' = "done"
    /\ UNCHANGED <<rcave, rlevel, rblocks, roff, rnext, col>>

RenderNext ==
    \/ RenderEnter /\ UNCHANGED cvars
    \/ RenderColumn /\ UNCHANGED cvars
    \/ RenderReturn /\ UNCHANGED cvars

(***************************************************************************)
(* Properties of chunk_render (SpecRender)                                 *)
(***************************************************************************)
ColumnDone == col.x >= 0
InputBlock(x, y, z) == get_blockarray(rlevel.grid, x, y, z)
InputSky(x, y, k) == get_skylight_array(rlevel.light, x, y, k)
InGrid(idx) ==
    /\ idx[1] \in 0..15
    /\ idx[2] \in 0..15
    /\ idx[3] \in 0..127

\* C5: every neighbour lookup of the visibility test and of the edge-line test,
\* in normal and in cave mode, uses indices inside the grid (x, y in 0..15,
\* z in 0..127), for every visited voxel.
C5_LookupsInsideGrid ==
    \A idx \in col.reads : InGrid(idx)

\* C6: in normal mode a voxel that has a sprite is drawn if and only if it is
\* not the case that x # 0, y # 15, z # 127 and the neighbours (x-1,y,z),
\* (x,y+1,z), (x,y,z+1) are all outside the transparency set; in a grid filled
\* with stone exactly the voxels with x = 0 or y = 15 or z = 127 are drawn.
C6_NormalModeVisibility ==
    (~rcave /\ ColumnDone) =>
        /\ Len(col.outs) = SizeZ
        /\ \A z \in 0..(SizeZ - 1) :
              HasSprite(InputBlock(col.x, col.y, z)) =>
                ( col.outs[z + 1] = "drawn"
                  <=> ~( /\ col.x # 0 /\ col.y # 15 /\ z # 127
                         /\ InputBlock(col.x - 1, col.y, z) \notin transparent_blocks
                         /\ InputBlock(col.x, col.y + 1, z) \notin transparent_blocks
                         /\ InputBlock(col.x, col.y, z + 1) \notin transparent_blocks ) )
        /\ rlevel.grid = 1 =>
              \A z \in 0..(SizeZ - 1) :
                  col.outs[z + 1] = "drawn" <=> (col.x = 0 \/ col.y = 15 \/ z = 127)

\* C6 witness: in normal mode, in the stone-filled grid, an interior column
\* whose bottom voxel was skipped as occluded and whose top voxel (z = 127) was
\* drawn
C6_Witness ==
    /\ ~rcave /\ rlevel.grid = 1
    /\ col.x = 8 /\ col.y = 7
    /\ col.outs[1] = "occluded" /\ col.outs[SizeZ] = "drawn"

\* the expanded skylight value of cell z as the data model states it: the low
\* nibble of byte z div 2 when z is even, the high nibble when z is odd
Nibble(x, y, z) ==
    IF z % 2 = 0 THEN InputSky(x, y, z \div 2) % 16
    ELSE InputSky(x, y, z \div 2) \div 16

\* C7: in cave mode the grid the traversal reads equals the input grid with
\* exactly the cells of nonzero expanded skylight replaced by the hidden marker
\* 21, which is not in the transparency set; cells of zero skylight keep their
\* input value.
C7_CaveGrid ==
    (rcave /\ ColumnDone) =>
        /\ HiddenId = 21 /\ HiddenId \notin transparent_blocks
        /\ \A z \in 0..(Len(col.ids) - 1) :
              col.ids[z + 1] = IF Nibble(col.x, col.y, z) # 0 THEN 21
                               ELSE InputBlock(col.x, col.y, z)

\* C7 witness: a cave-mode column with a byte 0x0F: its even cell, a stone in
\* the input, was read as 21 and its odd cell was read with its input value
C7_Witness ==
    /\ rcave /\ ColumnDone /\ Len(col.ids) = SizeZ
    /\ \E k \in 0..(SkyZ - 1) :
          /\ InputSky(col.x, col.y, k) = 15
          /\ InputBlock(col.x, col.y, 2 * k) = 1
          /\ col.ids[2 * k + 1] = 21
          /\ col.ids[2 * k + 2] = InputBlock(col.x, col.y, 2 * k + 1)
          /\ col.ids[2 * k + 2] # 21

\* C9: for every visited voxel (x, y, z) and every offset the pixel position in
\* effect when the voxel is processed is imgx = xoff + 12x + 12y and
\* imgy = yoff - 6x + 6y + 128*12 + 96 - 12z, whatever happened to the voxels
\* below it in the column.
C9_Projection ==
    ColumnDone =>
        \A z \in 0..(Len(col.pos) - 1) :
            col.pos[z + 1] = << roff[1] + 12 * col.x + 12 * col.y,
                               roff[2] - 6 * col.x + 6 * col.y + 128 * 12 + 96 - 12 * z >>

\* C9 witness: with a nonzero offset, a column in which a voxel without sprite,
\* an occluded voxel and a drawn voxel all lie below a visited voxel
C9_Witness ==
    /\ ColumnDone /\ roff # <<0, 0>> /\ Len(col.outs) = SizeZ
    /\ \E z \in 1..(SizeZ - 3) :
          {col.outs[z], col.outs[z + 1], col.outs[z + 2]} = {"nosprite", "occluded", "drawn"}

\* C10: with xoff = yoff = 0 the 24x24 sprite rectangle anchored at the position
\* of every voxel lies inside the 384 x 1728 canvas.
C10_SpriteInsideCanvas ==
    (ColumnDone /\ roff = <<0, 0>>) =>
        \A z \in 1..Len(col.pos) :
            /\ 0 <= col.pos[z][1] /\ col.pos[z][1] + SpriteSize <= CanvasW
            /\ 0 <= col.pos[z][2] /\ col.pos[z][2] + SpriteSize <= CanvasH

SpecRender == RenderInit /\ [][RenderNext]_vars

(***************************************************************************)
(* Whether chunk_render(cave) on a level raises: the only lookup that can  *)
(* leave the array is the one of voxel (0, 15, 127), the last one visited  *)
(* (RenderOutcome checks this against the traversal).                      *)
(***************************************************************************)
BlocksOf(lv, cave) ==
    [grid |-> lv.grid, masked |-> cave, light |-> IF cave THEN lv.light ELSE 0]

ChunkRenderRaises(lv, cave) ==
    Voxel(BlocksOf(lv, cave), cave, 0, SizeY - 1, SizeZ - 1).out = "raise"

RenderOutcome ==
    /\ rpc = "raised" => (ChunkRenderRaises(rlevel, rcave) /\ col.x = 0 /\ col.y = SizeY - 1)
    /\ rpc = "done" => ~ChunkRenderRaises(rlevel, rcave)

(***************************************************************************)
(* render_and_save: names, hashes, the directory                           *)
(***************************************************************************)
HashSpace == 3   \* number of distinct 6-digit prefixes in the model
MaxFiles == 3    \* cache files in the directory before the first call
MaxCalls == 2    \* calls of the single caller
CacheGrids == 2  \* the chunk files hold the block patterns 1..CacheGrids

HexTable == <<"0f3a9c", "7be201", "c4d55e", "19aa70", "e08b3d">>

\* hashlib.md5 over level['Blocks'] and the version tag "1": a fixed function
\* of the content into the space of digests
md5(g, tag) == 5 * g + tag

\* _hash_blockarray: digest[:6]
_hash_blockarray(lv) == HexTable[(md5(lv.grid, 1) % HashSpace) + 1]

\* file names as the sequence of their "."-separated parts
ChunkFiles == { <<"c", "0", "0", "dat">>, <<"c", "0", "1", "dat">> }
ModeName(cave) == IF cave THEN "cave" ELSE "nocave"

\* ".".join(filename.split(".")[1:3])
BlockId(chunkfile) == SubSeq(chunkfile, 2, 3)

\* "img.{0}.{1}.{2}.png".format(blockid, mode, hash)
DestFilename(chunkfile, cave, h) ==
    <<"img">> \o BlockId(chunkfile) \o <<ModeName(cave), h, "png">>

\* oldimg.startswith("img.{0}.{1}.".format(blockid, mode)) and oldimg.endswith(".png")
IsOldImg(name, chunkfile, cave) ==
    LET prefix == <<"img">> \o BlockId(chunkfile) \o <<ModeName(cave)>>
    IN  /\ Len(name) > Len(prefix)
        /\ SubSeq(name, 1, Len(prefix)) = prefix
        /\ name[Len(name)] = "png"

Hexes == { HexTable[i] : i \in 1..HashSpace }
CacheNames == { DestFilename(f, c, h) : f \in ChunkFiles, c \in BOOLEAN, h \in Hexes }
Names == CacheNames \cup ChunkFiles
Pairs == ChunkFiles \X BOOLEAN
PairNames(p) == { n \in CacheNames : IsOldImg(n, p[1], p[2]) }

CacheLevels == [grid : 1..CacheGrids, light : Lights]

Callers == DOMAIN pc
NoCall == [result |-> "none"]
NewCall(lv, d) ==
    [result |-> "running", level |-> lv, dest |-> d, hit |-> FALSE, undecodable |-> FALSE,
     renders |-> 0, writes |-> 0, unlinked |-> {}, wrote |-> {}]

\* the directories a run may start from: the chunk files, and at most MaxFiles
\* cache files of the given pairs, images or undecodable leftovers; the
\* directory is read as found (os.path.exists, os.listdir), whatever earlier
\* runs, overlapping runs or the user left in it
StartDirs(ps) ==
    LET own == UNION { PairNames(p) : p \in ps }
    IN  { d \in [Names -> {"absent", "image", "junk"}] :
            /\ \A f \in ChunkFiles : d[f] = "junk"
            /\ \A n \in CacheNames \ own : d[n] = "absent"
            /\ Cardinality({ n \in own : d[n] # "absent" }) <= MaxFiles }

(***************************************************************************)
(* render_and_save, one action per file-system operation                   *)
(***************************************************************************)
\* a = ChunkRenderer(chunkfile); a.render_and_save(cave) up to dest_path
Call(w) ==
    /\ pc[w] \in {"idle", "done"}
    /\ budget[w] > 0
    /\ dir[pair[w][1]] # "absent"             \* __init__: os.path.exists(chunkfile)
    /\ LET lv == chunkdata[pair[w][1]]
           d == DestFilename(pair[w][1], pair[w][2], _hash_blockarray(lv))
       IN  /\ level' = [level EXCEPT ![w] = lv]
           /\ dest' = [dest EXCEPT ![w] = d]
           /\ cur' = [cur EXCEPT ![w] = NewCall(lv, d)]
    /\ prev' = [prev EXCEPT ![w] = cur[w]]
    /\ budget' = [budget EXCEPT ![w] = @ - 1]
    /\ listing' = [listing EXCEPT ![w] = {}]
    /\ pc' = [pc EXCEPT ![w] = "exists"]
    /\ UNCHANGED <<dir, dir0, chunkdata, pair>>

\* if os.path.exists(dest_path):
Exists(w) ==
    /\ pc[w] = "exists"
    /\ pc' = [pc EXCEPT ![w] = IF dir[dest[w]] # "absent" THEN "open" ELSE "listdir"]
    /\ UNCHANGED <<dir, dir0, chunkdata, pair, level, dest, listing, cur, prev, budget>>

\* testimg = Image.open(dest_path); testimg.load()
\*   else: return dest_path        except Exception: pass
Open(w) ==
    /\ pc[w] = "open"
    /\ IF dir[dest[w]] = "image"
       THEN /\ cur' = [cur EXCEPT ![w].hit = TRUE, ![w].result = "returned"]
            /\ pc' = [pc EXCEPT ![w] = "done"]
       ELSE /\ cur' = [cur EXCEPT ![w].undecodable = TRUE]
            /\ pc' = [pc EXCEPT ![w] = "render"]
    /\ UNCHANGED <<dir, dir0, chunkdata, pair, level, dest, listing, prev, budget>>

\* os.listdir(destdir)
Listdir(w) ==
    /\ pc[w] = "listdir"
    /\ listing' = [listing EXCEPT ![w] = { n \in Names : dir[n] # "absent" }]
    /\ pc' = [pc EXCEPT ![w] = "unlink"]
    /\ UNCHANGED <<dir, dir0, chunkdata, pair, level, dest, cur, prev, budget>>

\* what the loop unlinks: the first old image in the order of the listing,
\* which is any of them, as os.listdir returns the names in arbitrary order
Victims(names, chunkfile, cave) ==
    { n \in names : IsOldImg(n, chunkfile, cave) }

\* for oldimg in ...: if oldimg.startswith(...) and ...: os.unlink(...); break
Unlink(w) ==
    /\ pc[w] = "unlink"
    /\ LET vs == Victims(listing[w], pair[w][1], pair[w][2])
       IN  IF vs = {}
           THEN /\ pc' = [pc EXCEPT ![w] = "render"]
                /\ UNCHANGED <<dir, cur>>
           ELSE \E n \in vs :
                  IF dir[n] = "absent"        \* os.unlink raises OSError
                  THEN /\ cur' = [cur EXCEPT ![w].result = "raised"]
                       /\ pc' = [pc EXCEPT ![w] = "done"]
                       /\ UNCHANGED dir
                  ELSE /\ dir' = [dir EXCEPT ![n] = "absent"]
                       /\ cur' = [cur EXCEPT ![w].unlinked = @ \cup {n}]
                       /\ pc' = [pc EXCEPT ![w] = "render"]
    /\ UNCHANGED <<dir0, chunkdata, pair, level, dest, listing, prev, budget>>

\* img = self.chunk_render(cave=cave)
Render(w) ==
    /\ pc[w] = "render"
    /\ IF ChunkRenderRaises(level[w], pair[w][2])
       THEN /\ cur' = [cur EXCEPT ![w].renders = @ + 1, ![w].result = "raised"]
            /\ pc' = [pc EXCEPT ![w] = "done"]
       ELSE /\ cur' = [cur EXCEPT ![w].renders = @ + 1]
            /\ pc' = [pc EXCEPT ![w] = "save"]
    /\ UNCHANGED <<dir, dir0, chunkdata, pair, level, dest, listing, prev, budget>>

\* img.save(dest_path); return dest_path
Save(w) ==
    /\ pc[w] = "save"
    /\ dir' = [dir EXCEPT ![dest[w]] = "image"]
    /\ cur' = [cur EXCEPT ![w].writes = @ + 1, ![w].wrote = @ \cup {dest[w]},
                          ![w].result = "returned"]
    /\ pc' = [pc EXCEPT ![w] = "done"]
    /\ UNCHANGED <<dir0, chunkdata, pair, level, dest, listing, prev, budget>>

\* the world is edited between two calls: the chunk file gets new content
Mutate(f) ==
    /\ \E w \in Callers : pair[w][1] = f
    /\ \A w \in Callers : pc[w] = "done" /\ budget[w] > 0
    /\ \E lv \in CacheLevels \ {chunkdata[f]} :
          chunkdata' = [chunkdata EXCEPT ![f] = lv]
    /\ UNCHANGED <<dir, dir0, pair, pc, level, dest, listing, cur, prev, budget>>

\* chunk_render is not running
RenderIdle ==
    /\ rpc = "done" /\ rcave = FALSE /\ rlevel = [grid |-> 1, light |-> 0]
    /\ rblocks = [grid |-> 1, masked |-> FALSE, light |-> 0]
    /\ roff = <<0, 0>> /\ rnext = <<-1, 0>> /\ col = NoCol

TheChunk == <<"c", "0", "0", "dat">>
OtherChunk == <<"c", "0", "1", "dat">>

\* one caller, one (chunk, mode) pair, up to MaxCalls calls
Init ==
    /\ RenderIdle
    /\ \E c \in BOOLEAN :
          /\ pair = <<  <<TheChunk, c>> >>
          /\ dir \in StartDirs({ <<TheChunk, TRUE>>, <<TheChunk, FALSE>> })
    /\ dir0 = dir
    /\ chunkdata \in [ChunkFiles -> CacheLevels]
    /\ chunkdata[OtherChunk] = [grid |-> 1, light |-> 0]
    /\ pc = << "idle" >>
    /\ level = << [grid |-> 1, light |-> 0] >>
    /\ dest = << <<>> >>
    /\ listing = << {} >>
    /\ cur = << NoCall >>
    /\ prev = << NoCall >>
    /\ budget = << MaxCalls >>

Next ==
    \/ \E w \in Callers : Call(w) /\ UNCHANGED rvars
    \/ \E w \in Callers : Exists(w) /\ UNCHANGED rvars
    \/ \E w \in Callers : Open(w) /\ UNCHANGED rvars
    \/ \E w \in Callers : Listdir(w) /\ UNCHANGED rvars
    \/ \E w \in Callers : Unlink(w) /\ UNCHANGED rvars
    \/ \E w \in Callers : Render(w) /\ UNCHANGED rvars
    \/ \E w \in Callers : Save(w) /\ UNCHANGED rvars
    \/ \E f \in ChunkFiles : Mutate(f) /\ UNCHANGED rvars

Spec == Init /\ [][Next]_vars

\* two callers on distinct (chunk, mode) pairs, one call each, interleaved at
\* the file-system operations
PairChoices ==
    { << <<TheChunk, FALSE>>, <<TheChunk, TRUE>> >>,
      << <<TheChunk, FALSE>>, <<OtherChunk, FALSE>> >>,
      << <<TheChunk, TRUE>>, <<OtherChunk, TRUE>> >> }

InitConc ==
    /\ RenderIdle
    /\ pair \in PairChoices
    /\ dir \in StartDirs({ pair[1], pair[2] })
    /\ dir0 = dir
    /\ chunkdata \in [ChunkFiles -> CacheLevels]
    /\ (pair[2][1] = TheChunk) => chunkdata[OtherChunk] = [grid |-> 1, light |-> 0]
    /\ pc = << "idle", "idle" >>
    /\ level = << [grid |-> 1, light |-> 0], [grid |-> 1, light |-> 0] >>
    /\ dest = << <<>>, <<>> >>
    /\ listing = << {}, {} >>
    /\ cur = << NoCall, NoCall >>
    /\ prev = << NoCall, NoCall >>
    /\ budget = << 1, 1 >>

NextConc ==
    \/ \E w \in Callers : Call(w) /\ UNCHANGED rvars
    \/ \E w \in Callers : Exists(w) /\ UNCHANGED rvars
    \/ \E w \in Callers : Open(w) /\ UNCHANGED rvars
    \/ \E w \in Callers : Listdir(w) /\ UNCHANGED rvars
    \/ \E w \in Callers : Unlink(w) /\ UNCHANGED rvars
    \/ \E w \in Callers : Render(w) /\ UNCHANGED rvars
    \/ \E w \in Callers : Save(w) /\ UNCHANGED rvars

SpecConc == InitConc /\ [][NextConc]_vars

(***************************************************************************)
(* Properties of render_and_save (Spec, SpecConc)                          *)
(***************************************************************************)
Finished(w) == pc[w] = "done" /\ cur[w].result # "none"
Followed(w) == Finished(w) /\ prev[w].result # "none"

\* C1: two calls in succession by one caller with unchanged voxel data: the
\* second call finds the cache file present and decodable, renders, writes and
\* deletes nothing and returns the path of the first call; starting from a
\* missing or undecodable cache file the two calls together perform exactly one
\* chunk_render and exactly one file write.
C1_SecondCallIsCacheHit ==
    \A w \in Callers :
        (Followed(w) /\ cur[w].level.grid = prev[w].level.grid) =>
            /\ cur[w].result = "returned" /\ cur[w].hit
            /\ cur[w].renders = 0 /\ cur[w].writes = 0 /\ cur[w].unlinked = {}
            /\ prev[w].result = "returned" /\ cur[w].dest = prev[w].dest
            /\ ~prev[w].hit => /\ prev[w].renders + cur[w].renders = 1
                               /\ prev[w].writes + cur[w].writes = 1

\* C2: when the previous call wrote the cache file and the voxel buffer then
\* changed so that the hash prefix differs, the next call renders again, writes
\* the image under the new name, and on return the prior cache file is gone.
C2_InvalidationRemovesPrior ==
    \A w \in Callers :
        (Followed(w) /\ prev[w].writes = 1 /\ cur[w].dest # prev[w].dest) =>
            /\ cur[w].renders = 1 /\ cur[w].writes = 1
            /\ cur[w].result = "returned"
            /\ dir[cur[w].dest] = "image"
            /\ dir[prev[w].dest] = "absent"

\* C3: whenever a call does not take the cache-hit path, every other cache file
\* of the same (chunk, mode) pair is deleted: on return the directory holds at
\* most one cache file of the pair, the one just written, however many there
\* were before.
C3_AtMostOneFilePerPair ==
    \A w \in Callers :
        (Finished(w) /\ cur[w].result = "returned" /\ ~cur[w].hit) =>
            { n \in PairNames(pair[w]) : dir[n] # "absent" } = {cur[w].dest}

\* C4: when the expected cache file exists but does not decode, the call does
\* not return early: it renders, overwrites that path with the rendered image
\* and returns the path, and afterwards the file at that path is a valid image.
C4_UndecodableFileIsRerendered ==
    \A w \in Callers :
        (Finished(w) /\ cur[w].undecodable) =>
            /\ cur[w].renders = 1 /\ cur[w].writes = 1
            /\ cur[w].wrote = {cur[w].dest}
            /\ cur[w].result = "returned"
            /\ dir[cur[w].dest] = "image"

\* render_and_save of caller w run alone, without interruption, on directory d:
\* the directories it may leave
RunAlone(d, w) ==
    LET lv == chunkdata[pair[w][1]]
        dst == DestFilename(pair[w][1], pair[w][2], _hash_blockarray(lv))
        vs == { n \in PairNames(pair[w]) : d[n] # "absent" }
        cleaned == IF d[dst] # "absent" \/ vs = {} THEN {d}
                   ELSE { [d EXCEPT ![n] = "absent"] : n \in vs }
    IN  IF d[dst] = "image" THEN {d}
        ELSE IF ChunkRenderRaises(lv, pair[w][2]) THEN cleaned
        ELSE { [e EXCEPT ![dst] = "image"] : e \in cleaned }

\* the directories the callers ws may leave when they run one after another
RECURSIVE Serial(_, _)
Serial(d, ws) ==
    IF ws = {} THEN {d}
    ELSE UNION { UNION { Serial(e, ws \ {w}) : e \in RunAlone(d, w) } : w \in ws }

\* C8: concurrent calls on pairwise distinct (chunk, mode) pairs: no call
\* deletes or overwrites a cache file of another pair, every call ends with its
\* own cache file present, and the final directory is one a serial execution
\* of the same calls leaves.
C8_DistinctPairsIndependent ==
    /\ \A w \in Callers :
          cur[w].result # "none" =>
              cur[w].unlinked \cup cur[w].wrote \subseteq PairNames(pair[w])
    /\ (\A w \in Callers : Finished(w)) =>
          /\ \A w \in Callers : dir[cur[w].dest] # "absent"
          /\ dir \in Serial(dir0, Callers)

(***************************************************************************)
(* What render_and_save does keep, apart from the two defects above (the   *)
(* lookup outside the grid that makes chunk_render raise in cave mode, and *)
(* the cleanup that stops after one file): invariants of Spec and SpecConc *)
(***************************************************************************)
Returned(w) == cur[w].result # "raised" /\ prev[w].result # "raised"
OneFilePerPair ==
    \A p \in Pairs : Cardinality({ n \in PairNames(p) : dir0[n] # "absent" }) <= 1

\* the only exception a call ends with is the one of chunk_render
OnlyRenderRaises ==
    \A w \in Callers : cur[w].result = "raised" => cur[w].renders = 1

\* C1 for calls that return
SecondCallIsCacheHit_Returned ==
    \A w \in Callers :
        (Followed(w) /\ Returned(w) /\ cur[w].level.grid = prev[w].level.grid) =>
            /\ cur[w].result = "returned" /\ cur[w].hit
            /\ cur[w].renders = 0 /\ cur[w].writes = 0 /\ cur[w].unlinked = {}
            /\ cur[w].dest = prev[w].dest
            /\ ~prev[w].hit => /\ prev[w].renders + cur[w].renders = 1
                               /\ prev[w].writes + cur[w].writes = 1

\* C2 for calls that return, in a directory that started with at most one cache
\* file per pair
InvalidationRemovesPrior_Returned ==
    \A w \in Callers :
        (Followed(w) /\ Returned(w) /\ OneFilePerPair
         /\ prev[w].writes = 1 /\ cur[w].dest # prev[w].dest) =>
            /\ cur[w].renders = 1 /\ cur[w].writes = 1
            /\ dir[cur[w].dest] = "image"
            /\ dir[prev[w].dest] = "absent"

\* C3 in a directory that started with at most one cache file per pair
AtMostOneFilePerPair_Kept ==
    \A w \in Callers :
        (Finished(w) /\ OneFilePerPair /\ cur[w].result = "returned") =>
            { n \in PairNames(pair[w]) : dir[n] # "absent" } = {cur[w].dest}

\* C4 for calls that return
UndecodableFileIsRerendered_Returned ==
    \A w \in Callers :
        (Finished(w) /\ Returned(w) /\ cur[w].undecodable) =>
            /\ cur[w].renders = 1 /\ cur[w].writes = 1
            /\ cur[w].wrote = {cur[w].dest}
            /\ dir[cur[w].dest] = "image"

\* C8 with the own cache file required of the calls that return only
DistinctPairsIndependent_Returned ==
    /\ \A w \in Callers :
          cur[w].result # "none" =>
              cur[w].unlinked \cup cur[w].wrote \subseteq PairNames(pair[w])
    /\ (\A w \in Callers : Finished(w)) =>
          /\ \A w \in Callers : cur[w].result = "returned" => dir[cur[w].dest] = "image"
          /\ dir \in Serial(dir0, Callers)

====
